---- MODULE Spec2Model ----
(***************************************************************************)
(* Model of the conversation orchestration engine of interview-agent:      *)
(*   core/conversation_state.py  ConversationStateMachine                  *)
(*   core/intent_recognizer.py   IntentRecognizer                          *)
(*   core/interview.py           InterviewOrchestrator                     *)
(*   models/interview.py         InterviewSession / ConversationTurn       *)
(***************************************************************************)
EXTENDS Integers, Sequences, FiniteSets, TLC

(***************************************************************************)
(* ConversationState / UserIntent enums (conversation_state.py)            *)
(***************************************************************************)
INIT == "init"
GREETING == "greeting"
QUESTIONING == "questioning"
CONFIRMING == "confirming"
CLOSING == "closing"
COMPLETE == "complete"
ERROR == "error"

ConversationState == {INIT, GREETING, QUESTIONING, CONFIRMING, CLOSING, COMPLETE, ERROR}

\* Python None
None == "<None>"

(***************************************************************************)
(* ConversationStateMachine                                                *)
(***************************************************************************)
\* the valid_transitions dict of _is_valid_transition
valid_transitions ==
    [s \in ConversationState |->
        CASE s = INIT        -> {GREETING}
          [] s = GREETING    -> {QUESTIONING, COMPLETE}
          [] s = QUESTIONING -> {QUESTIONING, CONFIRMING, CLOSING, COMPLETE}
          [] s = CONFIRMING  -> {QUESTIONING, CLOSING}
          [] s = CLOSING     -> {COMPLETE}
          [] s = COMPLETE    -> {}
          [] s = ERROR       -> {INIT, GREETING, QUESTIONING, CONFIRMING, CLOSING}]

\* mutant: the ERROR shortcut is lost
IsValidTransitionNoErrorShortcut(from_state, to_state) ==
    to_state \in valid_transitions[from_state]

_is_valid_transition(from_state, to_state) ==
    IF to_state = ERROR THEN TRUE
    ELSE to_state \in valid_transitions[from_state]

\* ConversationStateMachine.__init__
NewStateMachine(initial_state) ==
    [current_state |-> initial_state, previous_state |-> None, error_message |-> None]

\* transition_to raises ValueError exactly when the check fails
transition_to_raises(sm, new_state) ==
    ~ _is_valid_transition(sm.current_state, new_state)

\* mutant: a successful transition keeps the old error message
TransitionToKeepsErrorMessage(sm, new_state) ==
    IF transition_to_raises(sm, new_state) THEN sm
    ELSE [current_state |-> new_state,
          previous_state |-> sm.current_state,
          error_message |-> sm.error_message]

\* mutant: previous_state is written before the validity check
TransitionToRecordsBeforeCheck(sm, new_state) ==
    IF transition_to_raises(sm, new_state)
    THEN [sm EXCEPT !.previous_state = sm.current_state]
    ELSE [current_state |-> new_state,
          previous_state |-> sm.current_state,
          error_message |-> None]

\* mutant: a transition out of ERROR carries the error message along
TransitionToClearsUnlessFromError(sm, new_state) ==
    IF transition_to_raises(sm, new_state) THEN sm
    ELSE [current_state |-> new_state,
          previous_state |-> sm.current_state,
          error_message |-> IF sm.current_state = ERROR THEN sm.error_message
                            ELSE None]

\* transition_to: the machine after the call (unchanged when it raises)
transition_to(sm, new_state) ==
    IF transition_to_raises(sm, new_state) THEN sm
    ELSE [current_state |-> new_state,
          previous_state |-> sm.current_state,
          error_message |-> None]

\* mutant: set_error forgets which state the failure happened in
SetErrorKeepsPrevious(sm, msg) ==
    [current_state |-> ERROR,
     previous_state |-> sm.previous_state,
     error_message |-> msg]

\* mutant: set_error does not store the message
SetErrorDropsMessage(sm, msg) ==
    [current_state |-> ERROR,
     previous_state |-> sm.current_state,
     error_message |-> None]

set_error(sm, msg) ==
    [current_state |-> ERROR,
     previous_state |-> sm.current_state,
     error_message |-> msg]

recover_from_error_raises(sm) ==
    sm.current_state # ERROR \/ sm.previous_state = None

\* mutant: recovery leaves the error message in place
RecoverKeepsErrorMessage(sm) ==
    IF recover_from_error_raises(sm) THEN sm
    ELSE [sm EXCEPT !.current_state = sm.previous_state]

recover_from_error(sm) ==
    IF recover_from_error_raises(sm) THEN sm
    ELSE [sm EXCEPT !.current_state = sm.previous_state, !.error_message = None]

\* mutant: COMPLETE is not recognised as terminal
IsTerminalNever(sm) == FALSE

is_terminal(sm) == sm.current_state = COMPLETE

(***************************************************************************)
(* UserIntent and the utterances explored                                  *)
(***************************************************************************)
ANSWER == "answer"
REPEAT == "repeat"
CLARIFY == "clarify"
SKIP == "skip"
CONFIRM_YES == "confirm_yes"
CONFIRM_NO == "confirm_no"
START == "start"
QUIT == "quit"
UNKNOWN == "unknown"

UserIntent == {ANSWER, REPEAT, CLARIFY, SKIP, CONFIRM_YES, CONFIRM_NO, START, QUIT, UNKNOWN}

\* transcripts the speech-to-text collaborator may return
Corpus == {"", "  ", "yes", "no", "start", "quit", "skip", "repeat that",
           "clarify", "Thanks", "i am an engineer"}

\* further texts given to the recognizer and to the quality gate when they
\* are exercised on their own
ExtraTexts == {"yup", "what should i say", "whatever works for me",
               "yes i am ready now", "thanks for the offer", " thanks ",
               "skip this one", "i am done here", "no yes", "yes indeed"}

WideCorpus == Corpus \cup ExtraTexts

\* str.strip() on the transcripts explored
str_strip(t) ==
    IF t = "  " THEN "" ELSE IF t = " thanks " THEN "thanks" ELSE t

\* str.lower() on the transcripts explored
str_lower(t) == IF t = "Thanks" THEN "thanks" ELSE t

\* len(text)
str_len(t) ==
    CASE t = "" -> 0
      [] t = "  " -> 2
      [] t = "no" -> 2
      [] t \in {"yes", "yup"} -> 3
      [] t \in {"quit", "skip"} -> 4
      [] t = "start" -> 5
      [] t \in {"Thanks", "thanks"} -> 6
      [] t = "no yes" -> 6
      [] t = "clarify" -> 7
      [] t = " thanks " -> 8
      [] t = "yes indeed" -> 10
      [] t = "repeat that" -> 11
      [] t = "skip this one" -> 13
      [] t = "i am done here" -> 14
      [] t = "i am an engineer" -> 16
      [] t = "what should i say" -> 17
      [] t = "yes i am ready now" -> 18
      [] t = "thanks for the offer" -> 20
      [] t = "whatever works for me" -> 21

\* len(text.split())
word_count(t) ==
    CASE t \in {"", "  "} -> 0
      [] t \in {"repeat that", "no yes", "yes indeed"} -> 2
      [] t = "skip this one" -> 3
      [] t \in {"i am an engineer", "what should i say", "whatever works for me",
                "thanks for the offer", "i am done here"} -> 4
      [] t = "yes i am ready now" -> 5
      [] OTHER -> 1

\* any(text.startswith(word) for word in question_words)
starts_with_question_word(t) ==
    t \in {"what should i say", "whatever works for me"}

\* the iteration order of the PATTERNS dict
PatternIntents == <<REPEAT, CLARIFY, SKIP, CONFIRM_YES, CONFIRM_NO, START, QUIT>>

\* len(re.search(pattern, text).group(0)) for each of the intent's three
\* alternatives in order, 0 where the alternative does not match
re_search_len(intent, t) ==
    CASE intent = REPEAT /\ t = "repeat that" -> <<6, 0, 0>>
      [] intent = CLARIFY /\ t = "clarify" -> <<7, 0, 0>>
      [] intent = SKIP /\ t = "skip" -> <<4, 0, 0>>
      [] intent = CONFIRM_YES /\ t \in {"yes", "yup"} -> <<3, 0, 0>>
      [] intent = CONFIRM_YES /\ t = "yes i am ready now" -> <<3, 0, 0>>
      [] intent = CONFIRM_YES /\ t \in {"no yes", "yes indeed"} -> <<3, 0, 0>>
      [] intent = CONFIRM_NO /\ t = "no yes" -> <<2, 0, 0>>
      [] intent = START /\ t = "yes i am ready now" -> <<5, 0, 0>>
      [] intent = SKIP /\ t = "skip this one" -> <<4, 0, 9>>
      [] intent = QUIT /\ t = "i am done here" -> <<0, 9, 0>>
      [] intent = CONFIRM_NO /\ t = "no" -> <<2, 0, 0>>
      [] intent = START /\ t = "start" -> <<5, 0, 0>>
      [] intent = QUIT /\ t = "quit" -> <<4, 0, 0>>
      [] OTHER -> <<0, 0, 0>>

(***************************************************************************)
(* IntentRecognizer (confidences in hundredths)                            *)
(***************************************************************************)
\* IntentRecognizer.__init__ default confidence_threshold = 0.7
DefaultConfidenceThreshold == 70

\* the confidence of one matching alternative
match_confidence(match_length, text_length) ==
    IF 2 * match_length > text_length THEN 90
    ELSE IF 10 * match_length > 3 * text_length THEN 80
    ELSE 70

\* mutant: the alternative covering most of the text decides
MatchPatternsBestCovering(t, intent) ==
    LET lens == re_search_len(intent, t)
        hits == {k \in 1..Len(lens) : lens[k] > 0}
    IN  IF hits = {} THEN 0
        ELSE LET best == CHOOSE k \in hits : \A j \in hits : lens[k] >= lens[j]
             IN  match_confidence(lens[best], str_len(t))

_match_patterns(t, intent) ==
    LET lens == re_search_len(intent, t)
        hits == {k \in 1..Len(lens) : lens[k] > 0}
    IN  IF hits = {} THEN 0
        ELSE LET first == CHOOSE k \in hits : \A j \in hits : k <= j
             IN  match_confidence(lens[first], str_len(t))

\* mutant: whatever matched no pattern well is taken for an answer
IsLikelyAnswerAlways(t) == TRUE

_is_likely_answer(t) ==
    IF word_count(t) <= 2 THEN FALSE
    ELSE IF starts_with_question_word(t) THEN FALSE
    ELSE TRUE

\* mutant: the boosted confidence is not capped
BoostedConfidenceUncapped(t, intent, context_intent) ==
    LET confidence == _match_patterns(t, intent)
    IN  IF context_intent # None /\ intent = context_intent
        THEN (confidence * 120) \div 100
        ELSE confidence

\* the confidence of one intent after the context boost
boosted_confidence(t, intent, context_intent) ==
    LET confidence == _match_patterns(t, intent)
    IN  IF context_intent # None /\ intent = context_intent
        THEN (IF (confidence * 120) \div 100 > 100 THEN 100
              ELSE (confidence * 120) \div 100)
        ELSE confidence

\* mutant: an intent that only equals the best confidence so far replaces it
RECURSIVE BestMatchLastWins(_, _, _)
BestMatchLastWins(t, context_intent, k) ==
    IF k = 0 THEN [intent |-> UNKNOWN, confidence |-> 0]
    ELSE LET prev == BestMatchLastWins(t, context_intent, k - 1)
             confidence == boosted_confidence(t, PatternIntents[k], context_intent)
         IN  IF confidence >= prev.confidence /\ confidence > 0
             THEN [intent |-> PatternIntents[k], confidence |-> confidence]
             ELSE prev

\* the loop over PATTERNS.items(): best_match after the first k intents
RECURSIVE best_match(_, _, _)
best_match(t, context_intent, k) ==
    IF k = 0 THEN [intent |-> UNKNOWN, confidence |-> 0]
    ELSE LET prev == best_match(t, context_intent, k - 1)
             confidence == boosted_confidence(t, PatternIntents[k], context_intent)
         IN  IF confidence > prev.confidence
             THEN [intent |-> PatternIntents[k], confidence |-> confidence]
             ELSE prev

\* mutant: a best match below the threshold is returned all the same
RecognizeWithBestAlways(text, context_intent, confidence_threshold) ==
    IF text = "" \/ str_strip(text) = "" THEN [intent |-> UNKNOWN, confidence |-> 0]
    ELSE LET text_lower == str_strip(str_lower(text))
             best == best_match(text_lower, context_intent, Len(PatternIntents))
         IN  IF best.confidence < confidence_threshold /\ _is_likely_answer(text_lower)
             THEN [intent |-> ANSWER, confidence |-> 80]
             ELSE best

recognize_with(text, context_intent, confidence_threshold) ==
    IF text = "" \/ str_strip(text) = "" THEN [intent |-> UNKNOWN, confidence |-> 0]
    ELSE LET text_lower == str_strip(str_lower(text))
             best == best_match(text_lower, context_intent, Len(PatternIntents))
         IN  IF best.confidence < confidence_threshold /\ _is_likely_answer(text_lower)
             THEN [intent |-> ANSWER, confidence |-> 80]
             ELSE IF best.confidence >= confidence_threshold THEN best
             ELSE [intent |-> UNKNOWN, confidence |-> best.confidence]

\* self.intent_recognizer.recognize(...) of the orchestrator's IntentRecognizer()
recognize(text, context_intent) ==
    recognize_with(text, context_intent, DefaultConfidenceThreshold)

(***************************************************************************)
(* Program state                                                           *)
(***************************************************************************)
VARIABLES
    state_machine,          \* InterviewOrchestrator.state_machine
    sm_call,                \* the last call made on the state machine and whether it raised
    num_questions,          \* len(self.questions)
    enable_confirmation,    \* self.enable_confirmation
    max_retries,            \* self.max_retries
    session,                \* self.session: [turns, completed]
    current_question_index, \* self.current_question_index
    current_question,       \* self.current_question: the question's number, 0 for None
    current_response_text,  \* self.current_response_text (None or text)
    retry_count,            \* self.retry_count
    api_call,               \* the last call made directly on a component, with its result
    capture_log,            \* byte lengths of the captures of direct _listen_for_response calls
    last_audio_size,        \* self.last_audio_size
    duplicate_audio_count,  \* self.duplicate_audio_count
    pc,                     \* position of run() in its code
    outcome,                \* how run() ended: "running", "returned", "interrupted", "raised"
    run_error,              \* the exception run() re-raised (None if none)
    hist                    \* run history: what has happened so far in this run

sm_vars == <<state_machine, sm_call>>
\* the record of calls made directly on a component, outside of run()
probe_vars == <<api_call, capture_log>>
\* what no step of run() and no state machine call writes
cfg_vars == <<num_questions, enable_confirmation, max_retries, probe_vars>>
orch_vars == <<session, current_question_index, current_question,
               current_response_text, retry_count, last_audio_size,
               duplicate_audio_count, pc, outcome, run_error, hist>>
vars == <<state_machine, sm_call, num_questions, enable_confirmation, max_retries,
          api_call, capture_log, session, current_question_index, current_question,
          current_response_text, retry_count, last_audio_size,
          duplicate_audio_count, pc, outcome, run_error, hist>>

(***************************************************************************)
(* Bounds of the model                                                     *)
(***************************************************************************)
\* largest questionnaire explored
MaxQuestions == 2
\* largest max_retries configuration explored
MaxRetriesCfg == 2
\* largest duplicate_audio_count explored (the code sets no limit)
MaxDuplicates == 1
\* longest series of direct _listen_for_response calls explored
MaxCaptures == 3

\* messages passed to set_error by a direct caller
ErrorMessages == {"boom", ""}

NoCall ==
    [op |-> None, from |-> None, target |-> None, message |-> None, raised |-> FALSE]

CallTransitionTo(sm, new_state) ==
    [op |-> "transition_to", from |-> sm.current_state, target |-> new_state,
     message |-> None, raised |-> transition_to_raises(sm, new_state)]

CallSetError(sm, msg) ==
    [op |-> "set_error", from |-> sm.current_state, target |-> ERROR,
     message |-> msg, raised |-> FALSE]

CallRecover(sm) ==
    [op |-> "recover_from_error", from |-> sm.current_state,
     target |-> sm.previous_state, message |-> None,
     raised |-> recover_from_error_raises(sm)]

\* no component has been called directly
NoApiCall == [op |-> None]

\* InterviewSession(questionnaire_path=...)
NewSession == [turns |-> <<>>, completed |-> FALSE]

\* nothing has happened yet: no question started, no listen attempt, no answer
\* captured, no QUIT heard, nothing classified in the greeting, in the
\* question loop or in a confirmation, the closing not spoken, no collaborator
\* failure
NoHist == [started |-> 0, listens |-> 0, nonempty |-> FALSE,
           captured |-> None, greeting_quit |-> FALSE, quit_at |-> 0,
           last_end |-> None, greeting_intent |-> None,
           intent |-> None, confirm_intent |-> None, closing_spoken |-> 0,
           fault_at |-> None]

\* InterviewOrchestrator.__init__ (after the configuration checks passed)
OrchInit ==
    /\ num_questions \in 1..MaxQuestions
    /\ enable_confirmation \in BOOLEAN
    /\ max_retries \in 1..MaxRetriesCfg
    /\ api_call = NoApiCall
    /\ capture_log = <<>>
    /\ session = NewSession
    /\ current_question_index = 0
    /\ current_question = 0
    /\ current_response_text = None
    /\ retry_count = 0
    /\ last_audio_size = 0
    /\ duplicate_audio_count = 0
    /\ pc = "run"
    /\ outcome = "running"
    /\ run_error = None
    /\ hist = NoHist

Init ==
    /\ state_machine = NewStateMachine(INIT)
    /\ sm_call = NoCall
    /\ OrchInit

(***************************************************************************)
(* Audio capture and the quality gate of _listen_for_response              *)
(***************************************************************************)
\* AudioManager defaults: 16 kHz, mono, 16-bit samples
SampleRate == 16000
Channels == 1
BytesPerSample == 2

\* byte lengths of the captures explored: 0.3 s, 1 s, 3 s
CaptureSizes == {9600, 32000, 96000}
\* mean absolute amplitudes of the captures explored
CaptureAmplitudes == {10, 500}

\* what record_until_silence and the transcription of it may deliver
Captures == [size : CaptureSizes, amplitude : CaptureAmplitudes, text : Corpus]

MIN_AMPLITUDE == 100

WHISPER_HALLUCINATIONS ==
    {"you", "thank you", "thanks", ".", "...", "bye", "goodbye", "music", "subscribe"}

\* mutant: the duration is never looked at
TooShortNever(c) == FALSE

\* audio_duration < 0.5, with audio_duration = len / (rate * channels * 2)
too_short(c) == 2 * c.size < SampleRate * Channels * BytesPerSample

\* mutant: every capture counts as shorter than two seconds
UnderTwoSecondsAlways(c) == TRUE

\* audio_duration < 2.0
under_two_seconds(c) == c.size < 2 * SampleRate * Channels * BytesPerSample

\* _listen_for_response gets as far as stt.transcribe_audio_data
transcribed(c) == ~ too_short(c) /\ c.amplitude >= MIN_AMPLITUDE

\* _handle_greeting: the text given to the recognizer is the transcript as
\* it comes, whatever the capture was like
greeting_text(c) == c.text

\* the string _listen_for_response returns for a capture
listen_text(c) ==
    IF too_short(c) THEN ""
    ELSE IF c.amplitude < MIN_AMPLITUDE THEN ""
    ELSE LET user_text == str_strip(c.text)
         IN  IF str_lower(user_text) \in WHISPER_HALLUCINATIONS /\ under_two_seconds(c)
             THEN ""
             ELSE user_text

\* mutant: a capture of another length does not reset the counter
NextDuplicateCountNoReset(c) ==
    IF c.size = last_audio_size /\ last_audio_size > 0
    THEN duplicate_audio_count + 1
    ELSE duplicate_audio_count

\* the duplicate-capture bookkeeping of _listen_for_response
next_duplicate_count(c) ==
    IF c.size = last_audio_size /\ last_audio_size > 0
    THEN duplicate_audio_count + 1
    ELSE 0

\* _listen_for_response: the bookkeeping every capture goes through
ListenBookkeeping(c) ==
    /\ next_duplicate_count(c) <= MaxDuplicates
    /\ duplicate_audio_count' = next_duplicate_count(c)
    /\ last_audio_size' = c.size

(***************************************************************************)
(* InterviewSession                                                        *)
(***************************************************************************)
\* mutant: the turn is not stored
AddTurnDropped(sess, turn) == sess

add_turn(sess, turn) == [sess EXCEPT !.turns = Append(@, turn)]

\* mutant: the completion flag is not set
MarkCompletedForgotten(sess) == sess

mark_completed(sess) == [sess EXCEPT !.completed = TRUE]

(***************************************************************************)
(* InterviewOrchestrator.run and its helpers                               *)
(***************************************************************************)
audio_vars == <<last_audio_size, duplicate_audio_count>>

\* mutant: the failure is re-raised without being recorded in the state machine
RaiseFromNoRecord(sm, kind, msg) ==
    /\ sm_call' = NoCall
    /\ state_machine' = sm
    /\ outcome' = "raised"
    /\ run_error' = kind
    /\ pc' = "done"

\* the handlers of run(): "except Exception" records the failure and re-raises
RaiseFrom(sm, kind, msg) ==
    /\ sm_call' = CallSetError(sm, "Interview failed: " \o msg)
    /\ state_machine' = set_error(sm, "Interview failed: " \o msg)
    /\ outcome' = "raised"
    /\ run_error' = kind
    /\ pc' = "done"

InvalidTransitionMessage(sm, new_state) ==
    "Invalid transition from " \o sm.current_state \o " to " \o new_state

\* a transition_to call inside run(): on success go to `next`, on ValueError
\* end in the "except Exception" handler
RunTransition(new_state, next) ==
    IF transition_to_raises(state_machine, new_state)
    THEN RaiseFrom(state_machine, "ValueError",
                   InvalidTransitionMessage(state_machine, new_state))
    ELSE /\ sm_call' = CallTransitionTo(state_machine, new_state)
         /\ state_machine' = transition_to(state_machine, new_state)
         /\ pc' = next
         /\ UNCHANGED <<outcome, run_error>>

\* a blocking tts.speak(...) call that returns normally
Speak(at, next) ==
    /\ outcome = "running"
    /\ pc = at
    /\ pc' = next
    /\ UNCHANGED <<sm_vars, cfg_vars, session, current_question_index,
                   current_question, current_response_text, retry_count,
                   audio_vars, outcome, run_error, hist>>

\* run(): self.state_machine.transition_to(ConversationState.GREETING)
RunStart ==
    /\ outcome = "running"
    /\ pc = "run"
    /\ RunTransition(GREETING, "greeting_speak")
    /\ UNCHANGED <<cfg_vars, session, current_question_index, current_question,
                   current_response_text, retry_count, audio_vars, hist>>

\* _handle_greeting: self.tts.speak(self.greeting)
GreetingSpeak == Speak("greeting_speak", "greeting_listen")

\* _handle_greeting: one pass of the while True loop up to the intent test
GreetingListen ==
    /\ outcome = "running"
    /\ pc = "greeting_listen"
    /\ \E c \in Captures :
        LET user_text == greeting_text(c)
            intent == recognize(user_text, START).intent
        IN  IF intent = START
            THEN /\ pc' = "questioning"
                 /\ hist' = [hist EXCEPT !.greeting_intent = intent]
                 /\ UNCHANGED <<sm_vars, session, outcome, run_error>>
            ELSE IF intent = QUIT
            THEN /\ session' = mark_completed(session)
                 /\ hist' = [hist EXCEPT !.greeting_quit = TRUE,
                                         !.greeting_intent = intent]
                 /\ RunTransition(COMPLETE, "questioning")
            ELSE /\ pc' = "greeting_reprompt"
                 /\ hist' = [hist EXCEPT !.greeting_intent = intent]
                 /\ UNCHANGED <<sm_vars, session, outcome, run_error>>
    /\ UNCHANGED <<cfg_vars, current_question_index, current_question,
                   current_response_text, retry_count, audio_vars>>

\* mutant: the greeting gives up after one re-prompt and goes on
GreetingRepromptGivesUp == Speak("greeting_reprompt", "questioning")

\* _handle_greeting: self.tts.speak("I didn't catch that. Are you ready to begin?")
GreetingReprompt == Speak("greeting_reprompt", "greeting_listen")

\* run(): self.state_machine.transition_to(ConversationState.QUESTIONING)
RunQuestioning ==
    /\ outcome = "running"
    /\ pc = "questioning"
    /\ RunTransition(QUESTIONING, "loop_check")
    /\ UNCHANGED <<cfg_vars, session, current_question_index, current_question,
                   current_response_text, retry_count, audio_vars, hist>>

\* mutant: the question loop stops one question early
RunLoopCheckStopsEarly ==
    /\ outcome = "running"
    /\ pc = "loop_check"
    /\ pc' = IF current_question_index + 1 < num_questions
             THEN "process_question" ELSE "closing"
    /\ UNCHANGED <<sm_vars, cfg_vars, session, current_question_index,
                   current_question, current_response_text, retry_count,
                   audio_vars, outcome, run_error, hist>>

\* run(): while self.current_question_index < len(self.questions)
RunLoopCheck ==
    /\ outcome = "running"
    /\ pc = "loop_check"
    /\ pc' = IF current_question_index < num_questions
             THEN "process_question" ELSE "closing"
    /\ UNCHANGED <<sm_vars, cfg_vars, session, current_question_index,
                   current_question, current_response_text, retry_count,
                   audio_vars, outcome, run_error, hist>>

\* mutant: the question is not taken at the current index
ProcessQuestionStartFirstQuestion ==
    /\ outcome = "running"
    /\ pc = "process_question"
    /\ current_question_index < num_questions
    /\ current_question' = 1
    /\ retry_count' = 0
    /\ hist' = [hist EXCEPT !.started = @ + 1, !.listens = 0,
                            !.nonempty = FALSE, !.captured = None,
                            !.last_end = None, !.intent = None]
    /\ pc' = "ask_question"
    /\ UNCHANGED <<sm_vars, cfg_vars, session, current_question_index,
                   current_response_text, audio_vars, outcome, run_error>>

\* mutant: retry_count is carried over from the question before
ProcessQuestionStartKeepsRetries ==
    /\ outcome = "running"
    /\ pc = "process_question"
    /\ current_question_index < num_questions
    /\ current_question' = current_question_index + 1
    /\ retry_count' = retry_count
    /\ hist' = [hist EXCEPT !.started = @ + 1, !.listens = 0,
                            !.nonempty = FALSE, !.captured = None,
                            !.last_end = None, !.intent = None]
    /\ pc' = "ask_question"
    /\ UNCHANGED <<sm_vars, cfg_vars, session, current_question_index,
                   current_response_text, audio_vars, outcome, run_error>>

\* _process_question: current_question and retry_count are set up
ProcessQuestionStart ==
    /\ outcome = "running"
    /\ pc = "process_question"
    /\ current_question_index < num_questions
    /\ current_question' = current_question_index + 1
    /\ retry_count' = 0
    /\ hist' = [hist EXCEPT !.started = @ + 1, !.listens = 0,
                            !.nonempty = FALSE, !.captured = None,
                            !.last_end = None, !.intent = None]
    /\ pc' = "ask_question"
    /\ UNCHANGED <<sm_vars, cfg_vars, session, current_question_index,
                   current_response_text, audio_vars, outcome, run_error>>

\* _ask_question: self.tts.speak(question_text)
AskQuestion ==
    /\ outcome = "running"
    /\ pc = "ask_question"
    /\ pc' = "retry_check"
    /\ hist' = [hist EXCEPT !.intent = None]
    /\ UNCHANGED <<sm_vars, cfg_vars, session, current_question_index,
                   current_question, current_response_text, retry_count,
                   audio_vars, outcome, run_error>>

\* mutant: the loop test is off by one
RetryCheckOffByOne ==
    /\ outcome = "running"
    /\ pc = "retry_check"
    /\ pc' = IF retry_count <= max_retries THEN "listen" ELSE "save_turn"
    /\ UNCHANGED <<sm_vars, cfg_vars, session, current_question_index,
                   current_question, current_response_text, retry_count,
                   audio_vars, outcome, run_error, hist>>

\* _process_question: while self.retry_count < self.max_retries
RetryCheck ==
    /\ outcome = "running"
    /\ pc = "retry_check"
    /\ pc' = IF retry_count < max_retries THEN "listen" ELSE "save_turn"
    /\ UNCHANGED <<sm_vars, cfg_vars, session, current_question_index,
                   current_question, current_response_text, retry_count,
                   audio_vars, outcome, run_error, hist>>

\* Response(text=...) of _save_turn; its other fields (the placeholder
\* confidence, the copy of retry_count, the timestamp) are never read back by
\* the orchestrator
NewResponse(response_text) == [text |-> response_text]

\* response=None of a ConversationTurn
NoResponse == [absent |-> TRUE]

\* mutant: the skipped turn is not flagged as skipped
SkippedTurnNotFlagged(question) ==
    [question |-> question, response |-> NoResponse, skipped |-> FALSE]

\* mutant: the skipped turn carries the text captured last
SkippedTurnWithResponse(question) ==
    [question |-> question, response |-> NewResponse("yes"), skipped |-> TRUE]

\* ConversationTurn(question, response=None, skipped=True) of _skip_question
SkippedTurn(question) ==
    [question |-> question, response |-> NoResponse, skipped |-> TRUE]

\* mutant: the saved turn never carries the captured text
SavedTurnNoResponse(question, response_text) ==
    [question |-> question, response |-> NoResponse, skipped |-> FALSE]

\* the ConversationTurn built by _save_turn: a Response only if
\* self.current_response_text is truthy
SavedTurn(question, response_text) ==
    [question |-> question,
     response |-> IF response_text # None /\ response_text # ""
                  THEN NewResponse(response_text)
                  ELSE NoResponse,
     skipped |-> FALSE]

\* _process_question: one pass of the loop, from _listen_for_response to the
\* branch taken on the recognized intent
Listen ==
    /\ outcome = "running"
    /\ pc = "listen"
    /\ \E c \in Captures :
        LET user_text == listen_text(c)
            intent == recognize(user_text, None).intent
            \* hist.listens counts the listen attempts of the question for as
            \* long as every one of them came back empty
            heard == [hist EXCEPT !.listens = IF hist.nonempty THEN 0 ELSE @ + 1,
                                  !.intent = None]
            \* hist.intent is what the recognizer made of a non-empty text
            nonempty_heard == [hist EXCEPT !.listens = 0, !.intent = intent]
        IN  /\ ListenBookkeeping(c)
            /\ IF user_text = ""
               THEN /\ retry_count' = retry_count + 1
                    /\ pc' = IF retry_count + 1 < max_retries
                             THEN "reprompt" ELSE "retry_check"
                    /\ hist' = heard
                    /\ UNCHANGED <<session, current_question_index,
                                   current_response_text>>
               ELSE IF intent = REPEAT
               THEN /\ pc' = "ask_question"
                    /\ hist' = [nonempty_heard EXCEPT !.nonempty = TRUE]
                    /\ UNCHANGED <<session, current_question_index,
                                   current_response_text, retry_count>>
               ELSE IF intent = CLARIFY
               THEN /\ pc' = "clarify"
                    /\ hist' = [nonempty_heard EXCEPT !.nonempty = TRUE]
                    /\ UNCHANGED <<session, current_question_index,
                                   current_response_text, retry_count>>
               ELSE IF intent = SKIP
               THEN /\ session' = IF current_question # 0
                                  THEN add_turn(session, SkippedTurn(current_question))
                                  ELSE session
                    /\ current_question_index' = current_question_index + 1
                    /\ pc' = "skip_speak"
                    /\ hist' = [nonempty_heard EXCEPT !.nonempty = TRUE, !.last_end = "skipped"]
                    /\ UNCHANGED <<current_response_text, retry_count>>
               ELSE IF intent = QUIT
               THEN /\ pc' = "exit_speak"
                    /\ hist' = [nonempty_heard EXCEPT !.nonempty = TRUE,
                                             !.quit_at = current_question_index + 1,
                                             !.last_end = "quit"]
                    /\ UNCHANGED <<session, current_question_index,
                                   current_response_text, retry_count>>
               ELSE /\ current_response_text' = user_text
                    /\ pc' = IF enable_confirmation THEN "confirm_answer" ELSE "save_turn"
                    /\ hist' = [nonempty_heard EXCEPT !.nonempty = TRUE, !.captured = user_text]
                    /\ UNCHANGED <<session, current_question_index, retry_count>>
    /\ UNCHANGED <<sm_vars, cfg_vars, current_question, outcome, run_error>>

\* _process_question: self.tts.speak("I didn't hear that. Could you please repeat?")
Reprompt == Speak("reprompt", "retry_check")

\* mutant: asking for clarification costs a retry
ClarifyConsumesRetry ==
    /\ outcome = "running"
    /\ pc = "clarify"
    /\ pc' = "ask_question"
    /\ retry_count' = retry_count + 1
    /\ UNCHANGED <<sm_vars, cfg_vars, session, current_question_index,
                   current_question, current_response_text, audio_vars,
                   outcome, run_error, hist>>

\* _provide_clarification: self.tts.speak("Let me repeat the question.")
Clarify == Speak("clarify", "ask_question")

\* _skip_question: self.tts.speak("Okay, moving to the next question.")
SkipSpeak == Speak("skip_speak", "question_done")

\* _confirm_answer: self.state_machine.transition_to(ConversationState.CONFIRMING)
ConfirmAnswer ==
    /\ outcome = "running"
    /\ pc = "confirm_answer"
    /\ RunTransition(CONFIRMING, "confirm_speak")
    /\ UNCHANGED <<cfg_vars, session, current_question_index, current_question,
                   current_response_text, retry_count, audio_vars, hist>>

\* _confirm_answer: self.tts.speak(confirmation_prompt)
ConfirmSpeak == Speak("confirm_speak", "confirm_listen")

\* mutant: _confirm_answer returns without going back to QUESTIONING
ConfirmListenNoReturn ==
    /\ outcome = "running"
    /\ pc = "confirm_listen"
    /\ \E c \in Captures :
        LET user_text == listen_text(c)
            intent == recognize(user_text, CONFIRM_YES).intent
        IN  /\ ListenBookkeeping(c)
            /\ hist' = [hist EXCEPT !.confirm_intent = intent]
            /\ pc' = IF intent = CONFIRM_YES THEN "save_turn"
                      ELSE IF intent = CONFIRM_NO THEN "confirm_no"
                      ELSE "confirm_unclear"
    /\ UNCHANGED <<sm_vars, cfg_vars, session, current_question_index,
                   current_question, current_response_text, retry_count,
                   outcome, run_error>>

\* _confirm_answer: listen once, classify, go back to QUESTIONING
ConfirmListen ==
    /\ outcome = "running"
    /\ pc = "confirm_listen"
    /\ \E c \in Captures :
        LET user_text == listen_text(c)
            intent == recognize(user_text, CONFIRM_YES).intent
        IN  /\ ListenBookkeeping(c)
            /\ hist' = [hist EXCEPT !.confirm_intent = intent]
            /\ RunTransition(QUESTIONING,
                             IF intent = CONFIRM_YES THEN "save_turn"
                             ELSE IF intent = CONFIRM_NO THEN "confirm_no"
                             ELSE "confirm_unclear")
    /\ UNCHANGED <<cfg_vars, session, current_question_index, current_question,
                   current_response_text, retry_count>>

\* mutant: a rejected answer is thrown away
ConfirmFailedDiscardsAnswer(at) ==
    /\ outcome = "running"
    /\ pc = at
    /\ retry_count' = retry_count + 1
    /\ current_response_text' = None
    /\ pc' = IF retry_count + 1 >= max_retries THEN "save_turn" ELSE "retry_check"
    /\ hist' = [hist EXCEPT !.confirm_intent = None]
    /\ UNCHANGED <<sm_vars, cfg_vars, session, current_question_index,
                   current_question, audio_vars, outcome, run_error>>

\* mutant: a failed confirmation does not cost a retry
ConfirmFailedKeepsRetries(at) ==
    /\ outcome = "running"
    /\ pc = at
    /\ retry_count' = retry_count
    /\ pc' = IF retry_count + 1 >= max_retries THEN "save_turn" ELSE "retry_check"
    /\ hist' = [hist EXCEPT !.confirm_intent = None]
    /\ UNCHANGED <<sm_vars, cfg_vars, session, current_question_index,
                   current_question, current_response_text, audio_vars,
                   outcome, run_error>>

\* mutant: a failed confirmation loops again without costing a retry
ConfirmFailedLoopsForFree(at) ==
    /\ outcome = "running"
    /\ pc = at
    /\ retry_count' = retry_count
    /\ pc' = "retry_check"
    /\ hist' = [hist EXCEPT !.confirm_intent = None]
    /\ UNCHANGED <<sm_vars, cfg_vars, session, current_question_index,
                   current_question, current_response_text, audio_vars,
                   outcome, run_error>>

\* _confirm_answer: after the spoken notice retry_count is incremented and False
\* returned; _process_question then gives up or loops
ConfirmFailed(at) ==
    /\ outcome = "running"
    /\ pc = at
    /\ retry_count' = retry_count + 1
    /\ pc' = IF retry_count + 1 >= max_retries THEN "save_turn" ELSE "retry_check"
    /\ hist' = [hist EXCEPT !.confirm_intent = None]
    /\ UNCHANGED <<sm_vars, cfg_vars, session, current_question_index,
                   current_question, current_response_text, audio_vars,
                   outcome, run_error>>

\* _confirm_answer: self.tts.speak("Okay, let's try again.")
ConfirmNo == ConfirmFailed("confirm_no")

\* _confirm_answer: self.tts.speak("I didn't understand. Let's try again.")
ConfirmUnclear == ConfirmFailed("confirm_unclear")

\* mutant: the index is not advanced after the turn is saved
SaveTurnNoAdvance ==
    /\ outcome = "running"
    /\ pc = "save_turn"
    /\ session' = IF current_question = 0 THEN session
                  ELSE add_turn(session,
                                SavedTurn(current_question, current_response_text))
    /\ hist' = [hist EXCEPT !.last_end = "saved", !.confirm_intent = None]
    /\ pc' = "question_done"
    /\ UNCHANGED <<sm_vars, cfg_vars, current_question_index, current_question,
                   current_response_text, retry_count, audio_vars, outcome,
                   run_error>>

\* _process_question: self._save_turn(turn_start); self.current_question_index += 1
SaveTurn ==
    /\ outcome = "running"
    /\ pc = "save_turn"
    /\ session' = IF current_question = 0 THEN session
                  ELSE add_turn(session,
                                SavedTurn(current_question, current_response_text))
    /\ current_question_index' = current_question_index + 1
    /\ hist' = [hist EXCEPT !.last_end = "saved", !.confirm_intent = None]
    /\ pc' = "question_done"
    /\ UNCHANGED <<sm_vars, cfg_vars, current_question, current_response_text,
                   retry_count, audio_vars, outcome, run_error>>

\* _handle_early_exit: speak, mark the session completed, go to COMPLETE
HandleEarlyExit ==
    /\ outcome = "running"
    /\ pc = "exit_speak"
    /\ session' = mark_completed(session)
    /\ RunTransition(COMPLETE, "question_done")
    /\ UNCHANGED <<cfg_vars, current_question_index, current_question,
                   current_response_text, retry_count, audio_vars, hist>>

\* mutant: the question loop goes on whatever the state machine says
QuestionDoneIgnoresTerminal ==
    /\ outcome = "running"
    /\ pc = "question_done"
    /\ pc' = "loop_check"
    /\ UNCHANGED <<sm_vars, cfg_vars, session, current_question_index,
                   current_question, current_response_text, retry_count,
                   audio_vars, outcome, run_error, hist>>

\* run(): if self.state_machine.is_terminal(): return self.session
QuestionDone ==
    /\ outcome = "running"
    /\ pc = "question_done"
    /\ IF is_terminal(state_machine)
       THEN /\ outcome' = "returned"
            /\ pc' = "done"
       ELSE /\ pc' = "loop_check"
            /\ UNCHANGED outcome
    /\ UNCHANGED <<sm_vars, cfg_vars, session, current_question_index,
                   current_question, current_response_text, retry_count,
                   audio_vars, run_error, hist>>

\* run(): self.state_machine.transition_to(ConversationState.CLOSING)
RunClosing ==
    /\ outcome = "running"
    /\ pc = "closing"
    /\ RunTransition(CLOSING, "closing_speak")
    /\ UNCHANGED <<cfg_vars, session, current_question_index, current_question,
                   current_response_text, retry_count, audio_vars, hist>>

\* _handle_closing: self.tts.speak(self.closing)
ClosingSpeak ==
    /\ outcome = "running"
    /\ pc = "closing_speak"
    /\ pc' = "complete"
    /\ hist' = [hist EXCEPT !.closing_spoken = @ + 1]
    /\ UNCHANGED <<sm_vars, cfg_vars, session, current_question_index,
                   current_question, current_response_text, retry_count,
                   audio_vars, outcome, run_error>>

\* run(): transition_to(COMPLETE); self.session.mark_completed(); return
RunComplete ==
    /\ outcome = "running"
    /\ pc = "complete"
    /\ IF transition_to_raises(state_machine, COMPLETE)
       THEN /\ RaiseFrom(state_machine, "ValueError",
                         InvalidTransitionMessage(state_machine, COMPLETE))
            /\ UNCHANGED session
       ELSE /\ sm_call' = CallTransitionTo(state_machine, COMPLETE)
            /\ state_machine' = transition_to(state_machine, COMPLETE)
            /\ session' = mark_completed(session)
            /\ outcome' = "returned"
            /\ pc' = "done"
            /\ UNCHANGED run_error
    /\ UNCHANGED <<cfg_vars, current_question_index, current_question,
                   current_response_text, retry_count, audio_vars, hist>>

\* the positions of run() that are inside a blocking tts.speak call
SpeakPositions ==
    {"greeting_speak", "greeting_reprompt", "ask_question", "reprompt", "clarify",
     "skip_speak", "confirm_speak", "confirm_no", "confirm_unclear", "exit_speak",
     "closing_speak"}

\* the positions of run() that call stt.transcribe_audio_data
ListenPositions == {"greeting_listen", "listen", "confirm_listen"}

\* run(): except KeyboardInterrupt
KeyboardInterrupt ==
    /\ outcome = "running"
    /\ sm_call' = CallSetError(state_machine, "Interview interrupted by user")
    /\ state_machine' = set_error(state_machine, "Interview interrupted by user")
    /\ session' = mark_completed(session)
    /\ outcome' = "interrupted"
    /\ pc' = "done"
    /\ UNCHANGED <<cfg_vars, current_question_index, current_question,
                   current_response_text, retry_count, audio_vars, run_error, hist>>

\* run(): except Exception, reached from a tts.speak call that raised
SpeakRaises ==
    /\ outcome = "running"
    /\ pc \in SpeakPositions
    /\ RaiseFrom(state_machine, "TTSError", "speech failed")
    /\ hist' = [hist EXCEPT !.fault_at = pc]
    /\ UNCHANGED <<cfg_vars, session, current_question_index, current_question,
                   current_response_text, retry_count, audio_vars>>

\* run(): except Exception, reached from a transcribe_audio_data call that
\* raised; in _listen_for_response the capture has passed the duration and
\* amplitude checks by then and its bookkeeping is done
TranscribeRaises ==
    /\ outcome = "running"
    /\ pc \in ListenPositions
    /\ IF pc = "greeting_listen"
       THEN UNCHANGED audio_vars
       ELSE \E c \in Captures :
                /\ transcribed(c)
                /\ ListenBookkeeping(c)
    /\ RaiseFrom(state_machine, "STTError", "transcription failed")
    /\ hist' = [hist EXCEPT !.fault_at = pc]
    /\ UNCHANGED <<cfg_vars, session, current_question_index, current_question,
                   current_response_text, retry_count>>

Next ==
    \/ RunStart
    \/ GreetingSpeak
    \/ GreetingListen
    \/ GreetingReprompt
    \/ RunQuestioning
    \/ RunLoopCheck
    \/ ProcessQuestionStart
    \/ AskQuestion
    \/ RetryCheck
    \/ Listen
    \/ Reprompt
    \/ Clarify
    \/ SkipSpeak
    \/ ConfirmAnswer
    \/ ConfirmSpeak
    \/ ConfirmListen
    \/ ConfirmNo
    \/ ConfirmUnclear
    \/ SaveTurn
    \/ HandleEarlyExit
    \/ QuestionDone
    \/ RunClosing
    \/ ClosingSpeak
    \/ RunComplete
    \/ KeyboardInterrupt
    \/ SpeakRaises
    \/ TranscribeRaises

Spec == Init /\ [][Next]_vars

(***************************************************************************)
(* The state machine driven directly by an arbitrary caller                *)
(***************************************************************************)
SMInit ==
    /\ \E s \in ConversationState : state_machine = NewStateMachine(s)
    /\ sm_call = NoCall
    /\ OrchInit

SM_transition_to ==
    \E t \in ConversationState :
        /\ sm_call' = CallTransitionTo(state_machine, t)
        /\ state_machine' = transition_to(state_machine, t)
        /\ UNCHANGED <<cfg_vars, orch_vars>>

SM_set_error ==
    \E m \in ErrorMessages :
        /\ sm_call' = CallSetError(state_machine, m)
        /\ state_machine' = set_error(state_machine, m)
        /\ UNCHANGED <<cfg_vars, orch_vars>>

SM_recover_from_error ==
    /\ sm_call' = CallRecover(state_machine)
    /\ state_machine' = recover_from_error(state_machine)
    /\ UNCHANGED <<cfg_vars, orch_vars>>

SMNext == SM_transition_to \/ SM_set_error \/ SM_recover_from_error

SMSpec == SMInit /\ [][SMNext]_vars

\* the same caller on a machine built with the default initial state
SMDefaultSpec == Init /\ [][SMNext]_vars

(***************************************************************************)
(* The constructors and the recognizer called directly                     *)
(***************************************************************************)
\* confidence thresholds tried, in hundredths: both ends, inside and outside
Thresholds == {0 - 1, 0, 50, 70, 85, 100, 101}

\* context_intent arguments tried
Contexts == UserIntent \cup {None}

\* mutant: a retry budget of zero is let through
OrchestratorInitAcceptsZeroRetries(max_retries_arg, n_questions) ==
    max_retries_arg < 0 \/ n_questions = 0

\* InterviewOrchestrator.__init__ raises: max_retries < 1, or the question
\* source gave no question (the path is taken to exist)
orchestrator_init_raises(max_retries_arg, n_questions) ==
    max_retries_arg < 1 \/ n_questions = 0

\* InterviewOrchestrator(...): what the caller gets
new_orchestrator(max_retries_arg, n_questions, confirm) ==
    IF orchestrator_init_raises(max_retries_arg, n_questions)
    THEN [raised |-> TRUE]
    ELSE [raised |-> FALSE,
          state_machine |-> NewStateMachine(INIT),
          num_questions |-> n_questions,
          session |-> NewSession,
          enable_confirmation |-> confirm,
          max_retries |-> max_retries_arg,
          current_question_index |-> 0,
          current_question |-> 0,
          current_response_text |-> None,
          retry_count |-> 0,
          last_audio_size |-> 0,
          duplicate_audio_count |-> 0]

\* IntentRecognizer.__init__ raises: not 0.0 <= confidence_threshold <= 1.0
recognizer_init_raises(confidence_threshold) ==
    ~ (0 <= confidence_threshold /\ confidence_threshold <= 100)

\* IntentRecognizer(confidence_threshold): what the caller gets
new_recognizer(confidence_threshold) ==
    IF recognizer_init_raises(confidence_threshold)
    THEN [raised |-> TRUE]
    ELSE [raised |-> FALSE, confidence_threshold |-> confidence_threshold]

not_called == <<sm_vars, num_questions, enable_confirmation, max_retries, orch_vars>>

New_InterviewOrchestrator ==
    /\ \E max_retries_arg \in (0 - 1)..MaxRetriesCfg, n_questions \in 0..MaxQuestions,
          confirm \in BOOLEAN :
            api_call' = [op |-> "InterviewOrchestrator",
                         max_retries |-> max_retries_arg,
                         questions |-> n_questions,
                         enable_confirmation |-> confirm,
                         result |-> new_orchestrator(max_retries_arg, n_questions,
                                                     confirm)]
    /\ UNCHANGED <<not_called, capture_log>>

New_IntentRecognizer ==
    /\ \E confidence_threshold \in Thresholds :
            api_call' = [op |-> "IntentRecognizer",
                         confidence_threshold |-> confidence_threshold,
                         result |-> new_recognizer(confidence_threshold)]
    /\ UNCHANGED <<not_called, capture_log>>

\* recognize(text, context_intent) on a recognizer built with a valid threshold
Call_recognize ==
    /\ \E confidence_threshold \in Thresholds, text \in WideCorpus,
          context_intent \in Contexts :
            /\ ~ recognizer_init_raises(confidence_threshold)
            /\ api_call' = [op |-> "recognize",
                            confidence_threshold |-> confidence_threshold,
                            text |-> text,
                            context_intent |-> context_intent,
                            result |-> recognize_with(text, context_intent,
                                                      confidence_threshold)]
    /\ UNCHANGED <<not_called, capture_log>>

\* _match_patterns(text, PATTERNS[intent]) on a lower-cased, trimmed text
Call_match_patterns ==
    /\ \E text \in WideCorpus, k \in 1..Len(PatternIntents) :
            /\ str_strip(text) # ""
            /\ api_call' = [op |-> "_match_patterns",
                            text |-> str_strip(str_lower(text)),
                            intent |-> PatternIntents[k],
                            result |-> _match_patterns(str_strip(str_lower(text)),
                                                       PatternIntents[k])]
    /\ UNCHANGED <<not_called, capture_log>>

ApiNext ==
    \/ New_InterviewOrchestrator
    \/ New_IntentRecognizer
    \/ Call_recognize
    \/ Call_match_patterns

\* the calls are made beside one orchestrator that is never run
ApiInit ==
    /\ Init
    /\ num_questions = 1
    /\ max_retries = 1
    /\ enable_confirmation

ApiSpec == ApiInit /\ [][ApiNext]_vars

(***************************************************************************)
(* The listening steps called directly, one capture after another          *)
(***************************************************************************)
\* byte lengths of the captures tried: none, 0.3 s, 0.5 s, 1 s, 2 s, 3 s
GateSizes == CaptureSizes \cup {0, 16000, 64000}

\* transcripts tried
GateCorpus == {"", "yes", "start", "Thanks", " thanks ", "thanks for the offer", "..."}

GateCaptures == [size : GateSizes, amplitude : CaptureAmplitudes, text : GateCorpus]

not_listening ==
    <<sm_vars, num_questions, enable_confirmation, max_retries, session,
      current_question_index, current_question, current_response_text,
      retry_count, pc, outcome, run_error, hist>>

\* _handle_greeting: one capture, transcribed and handed to the recognizer;
\* the greeting comes before any _listen_for_response call
Call_greeting_capture ==
    /\ capture_log = <<>>
    /\ \E c \in GateCaptures :
            api_call' = [op |-> "_handle_greeting",
                         capture |-> c,
                         transcribed |-> TRUE,
                         text |-> greeting_text(c)]
    /\ UNCHANGED <<not_listening, audio_vars, capture_log>>

\* _listen_for_response: one capture through the bookkeeping and the checks;
\* text is what its caller then has for the recognizer
Call_listen_for_response ==
    /\ Len(capture_log) < MaxCaptures
    /\ \E c \in GateCaptures :
            /\ ListenBookkeeping(c)
            /\ capture_log' = Append(capture_log, c.size)
            /\ api_call' = [op |-> "_listen_for_response",
                            capture |-> c,
                            transcribed |-> transcribed(c),
                            text |-> listen_text(c)]
    /\ UNCHANGED not_listening

GateNext == Call_greeting_capture \/ Call_listen_for_response

GateSpec == ApiInit /\ [][GateNext]_vars

(***************************************************************************)
(* Claims                                                                  *)
(***************************************************************************)
\* the edges of the documented transition table, written out pair by pair
TableEdges ==
    { <<INIT, GREETING>>,
      <<GREETING, QUESTIONING>>, <<GREETING, COMPLETE>>,
      <<QUESTIONING, QUESTIONING>>, <<QUESTIONING, CONFIRMING>>,
      <<QUESTIONING, CLOSING>>, <<QUESTIONING, COMPLETE>>,
      <<CONFIRMING, QUESTIONING>>, <<CONFIRMING, CLOSING>>,
      <<CLOSING, COMPLETE>>,
      <<ERROR, INIT>>, <<ERROR, GREETING>>, <<ERROR, QUESTIONING>>,
      <<ERROR, CONFIRMING>>, <<ERROR, CLOSING>> }

\* C1: transition_to(target) from current_state succeeds (the machine is then in
\* target) iff target is ERROR or (current_state, target) is an edge of the
\* table; for every other pair it raises and the machine stays where it was.
C1_TransitionTable ==
    sm_call.op = "transition_to" =>
        /\ ~ sm_call.raised <=>
              (sm_call.target = ERROR \/ <<sm_call.from, sm_call.target>> \in TableEdges)
        /\ ~ sm_call.raised => state_machine.current_state = sm_call.target
        /\ sm_call.raised => state_machine.current_state = sm_call.from

\* C1 witness: a rejected call (COMPLETE has no way out but ERROR)
C1_Witness ==
    /\ sm_call.op = "transition_to"
    /\ sm_call.from = COMPLETE
    /\ sm_call.target = GREETING
    /\ sm_call.raised
    /\ state_machine.current_state = COMPLETE

\* run() ended on its own account: it was neither interrupted nor failed by a
\* collaborator
NoExternalFault == outcome # "interrupted" /\ run_error \notin {"TTSError", "STTError"}

LastTurn == session.turns[Len(session.turns)]

\* C2: no transition_to call issued by run() and its helpers is ever rejected,
\* so run() never fails with an invalid-transition ValueError.
C2_NoInvalidTransition == run_error # "ValueError"

\* C3: after QUIT in the greeting run() ends as an early completion: it returns
\* the session, marked completed, with zero turns, the machine in COMPLETE and
\* no error raised.
C3_GreetingQuitCompletes ==
    (hist.greeting_quit /\ pc = "done" /\ NoExternalFault) =>
        /\ outcome = "returned"
        /\ run_error = None
        /\ session.completed
        /\ session.turns = <<>>
        /\ state_machine.current_state = COMPLETE

\* C4: whenever _process_question starts on a question, len(session.turns)
\* equals current_question_index; the index never exceeds the number of questions.
C4_TurnsMatchIndex ==
    /\ current_question_index <= num_questions
    /\ pc = "process_question" =>
          /\ Len(session.turns) = current_question_index
          /\ current_question_index < num_questions

\* C4 witness: the second question is about to be processed after one turn
C4_Witness ==
    /\ pc = "process_question"
    /\ current_question_index = 1
    /\ Len(session.turns) = 1

AskOrListenPositions ==
    {"process_question", "ask_question", "retry_check", "listen", "reprompt",
     "clarify", "confirm_answer", "confirm_speak", "confirm_listen"}

\* C6: once an utterance of the questioning loop is classified QUIT, no question
\* is asked or listened to any more and no turn is appended; when run() ends
\* undisturbed it has returned with the session completed and the machine in
\* COMPLETE.
C6_QuitStopsInterview ==
    /\ [](hist.quit_at > 0 =>
            /\ pc \notin AskOrListenPositions
            /\ hist.started = hist.quit_at
            /\ (pc = "done" /\ NoExternalFault) =>
                  /\ outcome = "returned"
                  /\ run_error = None
                  /\ session.completed
                  /\ state_machine.current_state = COMPLETE)
    /\ [][hist.quit_at > 0 => session'.turns = session.turns]_vars

\* C6 witness: QUIT during the first of two questions, run() has returned
C6_Witness ==
    /\ hist.quit_at = 1
    /\ num_questions = 2
    /\ outcome = "returned"
    /\ session.turns = <<>>
    /\ session.completed

\* C7: a question whose listen attempts all came back empty or gated out is
\* saved with no response.
C7_ExhaustedTurnHasNoResponse ==
    (pc = "question_done" /\ hist.last_end = "saved" /\ ~ hist.nonempty) =>
        LastTurn.response = NoResponse

\* C8: while every listen attempt of a question comes back empty there are never
\* more than max_retries of them, and the question then ends after exactly
\* max_retries attempts with retry_count = max_retries, one turn appended for
\* it, the index advanced by one and run() moving on.
C8_RetryExhaustion ==
    /\ (pc \in AskOrListenPositions \ {"process_question"} /\ ~ hist.nonempty) =>
          /\ hist.listens = retry_count
          /\ retry_count <= max_retries
    /\ (pc = "question_done" /\ hist.last_end = "saved" /\ ~ hist.nonempty) =>
          /\ hist.listens = max_retries
          /\ retry_count = max_retries
          /\ Len(session.turns) = hist.started
          /\ LastTurn.question = current_question
          /\ ~ LastTurn.skipped
          /\ current_question_index = hist.started
          /\ ~ is_terminal(state_machine)

\* C8 witness: two empty listen attempts with max_retries = 2, turn saved
C8_Witness ==
    /\ pc = "question_done"
    /\ hist.last_end = "saved"
    /\ ~ hist.nonempty
    /\ max_retries = 2
    /\ hist.listens = 2

\* C9: with confirmation enabled, a question that ends with its retries used up
\* and an answer captured is saved with a response whose text is the last
\* answer captured for it.
C9_RejectedAnswerKept ==
    (enable_confirmation /\ pc = "question_done" /\ hist.last_end = "saved"
        /\ hist.captured # None /\ retry_count >= max_retries) =>
        LastTurn.response = NewResponse(hist.captured)

\* C9 witness: two answers were captured and rejected, the second one is saved
C9_Witness ==
    /\ enable_confirmation
    /\ pc = "question_done"
    /\ hist.last_end = "saved"
    /\ max_retries = 2
    /\ retry_count = 2
    /\ hist.captured = "i am an engineer"
    /\ LastTurn.response = NewResponse("i am an engineer")

\* C10: a KeyboardInterrupt at any point of run() leaves the machine in ERROR
\* with a non-empty message and the session completed, keeps the turns as they
\* were, and run() returns the session without re-raising.
C10_InterruptReturnsSession ==
    /\ [](outcome = "interrupted" =>
            /\ state_machine.current_state = ERROR
            /\ state_machine.error_message \notin {None, ""}
            /\ session.completed
            /\ run_error = None
            /\ pc = "done")
    /\ [][outcome' = "interrupted" => session'.turns = session.turns]_vars

\* C10 witness: interrupted after one turn was saved
C10_Witness ==
    /\ outcome = "interrupted"
    /\ Len(session.turns) = 1
    /\ state_machine.previous_state = QUESTIONING

\* C11 as stated: a transcription error raised during a listen of the
\* questioning loop is absorbed like an empty input: retry_count goes up by
\* one, the run goes on and no error reaches the caller.
C11_TranscriptionErrorAbsorbed ==
    [][(pc = "listen" /\ hist'.fault_at = "listen")
       => /\ retry_count' = retry_count + 1
          /\ outcome' = "running"
          /\ run_error' = None]_vars

\* C11 amended: a transcription error raised during a listen of the
\* questioning loop is not absorbed: retry_count and the session are left as
\* they were, the state machine goes to ERROR from QUESTIONING with the
\* message "Interview failed: <error>", and run() ends by re-raising it.
C11_TranscriptionErrorEndsRun ==
    [][(pc = "listen" /\ hist'.fault_at = "listen")
       => /\ retry_count' = retry_count
          /\ session' = session
          /\ current_question_index' = current_question_index
          /\ outcome' = "raised"
          /\ run_error' = "STTError"
          /\ pc' = "done"
          /\ state_machine' =
                 [current_state |-> ERROR, previous_state |-> QUESTIONING,
                  error_message |-> "Interview failed: transcription failed"]]_vars

C11_Witness ==
    /\ hist.fault_at = "listen"
    /\ run_error = "STTError"
    /\ outcome = "raised"
    /\ retry_count = 1
    /\ state_machine.current_state = ERROR

\* C12: when a tts.speak call raises anywhere in run(), the call is not
\* retried: in that same step the state machine goes to ERROR with
\* previous_state the state it was in and a message made of "Interview
\* failed: " and the error's own message, the error is re-raised, and the
\* ended run takes no further step.
C12_SpeakFailureRecordedAndRaised ==
    /\ [][(pc \in SpeakPositions /\ hist'.fault_at = pc)
          => /\ state_machine' =
                    [current_state |-> ERROR,
                     previous_state |-> state_machine.current_state,
                     error_message |-> "Interview failed: " \o "speech failed"]
             /\ outcome' = "raised"
             /\ run_error' = "TTSError"
             /\ pc' = "done"
             /\ session' = session]_vars
    /\ [][outcome = "raised" => vars' = vars]_vars

C12_Witness ==
    /\ run_error = "TTSError"
    /\ outcome = "raised"
    /\ hist.fault_at = "confirm_speak"
    /\ state_machine.current_state = ERROR
    /\ state_machine.previous_state = CONFIRMING
    /\ state_machine.error_message = "Interview failed: speech failed"

\* a run that returned normally although nobody said QUIT
ReturnedWithoutQuit ==
    outcome = "returned" /\ hist.quit_at = 0 /\ ~ hist.greeting_quit

\* C13: in a run without QUIT, interruption or collaborator failure the state
\* machine goes QUESTIONING -> CLOSING -> COMPLETE after the last question,
\* the closing is spoken exactly once and while in CLOSING, and on return the
\* session is completed with as many turns as there are questions.
C13_NormalCompletion ==
    /\ pc = "closing_speak"
          => /\ state_machine.current_state = CLOSING
             /\ state_machine.previous_state = QUESTIONING
             /\ hist.closing_spoken = 0
             /\ current_question_index = num_questions
             /\ ~ session.completed
    /\ pc = "complete"
          => /\ state_machine.current_state = CLOSING
             /\ hist.closing_spoken = 1
    /\ ReturnedWithoutQuit
          => /\ state_machine.current_state = COMPLETE
             /\ state_machine.previous_state = CLOSING
             /\ hist.closing_spoken = 1
             /\ session.completed
             /\ Len(session.turns) = num_questions

C13_Witness ==
    /\ ReturnedWithoutQuit
    /\ num_questions = 2
    /\ Len(session.turns) = 2
    /\ session.completed
    /\ hist.closing_spoken = 1
    /\ state_machine.current_state = COMPLETE

\* C14: at every point of a run the i-th turn of the session is about the
\* i-th question of the questionnaire, so questions are taken in order, none
\* twice, and never more turns than questions.
C14_TurnsInQuestionOrder ==
    /\ Len(session.turns) <= num_questions
    /\ \A i \in 1..Len(session.turns) : session.turns[i].question = i

C14_Witness ==
    /\ Len(session.turns) = 2
    /\ session.turns[1].question = 1
    /\ session.turns[1].skipped
    /\ session.turns[2].question = 2
    /\ ~ session.turns[2].skipped

\* C15: on every exit path (normal completion, early QUIT, interruption) the
\* session, once marked completed, stays completed and gets no further turn.
C15_NoTurnAfterCompleted ==
    [][session.completed
       => /\ session'.completed
          /\ session'.turns = session.turns]_vars

\* a QUIT during the second question: completed with the one turn of the first
C15_Witness ==
    /\ session.completed
    /\ outcome = "returned"
    /\ hist.quit_at = 2
    /\ num_questions = 2
    /\ Len(session.turns) = 1

\* what a re-ask must leave alone
ReaskFrame ==
    <<retry_count, current_question_index, current_question, session, state_machine>>

\* C16: a non-empty utterance classified REPEAT or CLARIFY makes the
\* orchestrator ask the current question again (after the clarification
\* notice for CLARIFY) and go back to listening, with retry_count,
\* current_question_index, the session's turns and the state machine state
\* all unchanged.
C16_ReaskLeavesStateAlone ==
    /\ [][(pc = "listen" /\ outcome' = "running"
                         /\ hist'.intent \in {REPEAT, CLARIFY})
          => /\ pc' = IF hist'.intent = REPEAT THEN "ask_question" ELSE "clarify"
             /\ UNCHANGED ReaskFrame]_vars
    /\ [][(pc = "clarify" /\ outcome' = "running")
          => /\ pc' = "ask_question"
             /\ UNCHANGED ReaskFrame]_vars
    /\ [][(pc = "ask_question" /\ outcome' = "running")
          => /\ pc' = "retry_check"
             /\ UNCHANGED ReaskFrame]_vars

\* the question asked again after CLARIFY, one retry already used
C16_Witness ==
    /\ pc = "ask_question"
    /\ hist.intent = CLARIFY
    /\ retry_count = 1
    /\ current_question = 2
    /\ Len(session.turns) = 1
    /\ state_machine.current_state = QUESTIONING

\* the positions of _process_question from which another listen or a saved
\* turn can still follow
StillAskingPositions ==
    {"ask_question", "retry_check", "listen", "reprompt", "clarify",
     "confirm_answer", "confirm_speak", "confirm_listen", "confirm_no",
     "confirm_unclear", "save_turn", "exit_speak"}

\* C17: once an utterance of the current question was classified SKIP, the
\* session holds exactly one turn for that question, with skipped = true and
\* no response, current_question_index has moved past it, and the question's
\* processing is over: no further listen and no second turn for it.
C17_SkipEndsQuestionWithOneTurn ==
    hist.intent = SKIP
       => /\ hist.last_end = "skipped"
          /\ pc \notin StillAskingPositions
          /\ Len(session.turns) = current_question
          /\ session.turns[current_question] =
                 [question |-> current_question, response |-> NoResponse,
                  skipped |-> TRUE]
          /\ current_question_index = current_question

\* the second question skipped after one empty listen
C17_Witness ==
    /\ hist.intent = SKIP
    /\ pc = "question_done"
    /\ current_question = 2
    /\ retry_count = 1
    /\ Len(session.turns) = 2
    /\ session.turns[2].skipped

\* the intents that do not make an utterance an answer attempt
NotAnAnswerIntents == {REPEAT, CLARIFY, SKIP, QUIT}

\* C18: with enable_confirmation false the state machine is never in
\* CONFIRMING; the first non-empty utterance classified other than REPEAT,
\* CLARIFY, SKIP or QUIT is captured at once and ends the listening of the
\* question, and the turn appended for the question carries that utterance
\* as its response text.
C18_NoConfirmationAcceptsAtOnce ==
    ~ enable_confirmation
       => /\ state_machine.current_state # CONFIRMING
          /\ state_machine.previous_state # CONFIRMING
          /\ (hist.intent # None /\ hist.intent \notin NotAnAnswerIntents)
                => hist.captured # None
          /\ hist.captured # None
                => /\ hist.intent \notin NotAnAnswerIntents
                   /\ current_response_text = hist.captured
                   /\ pc \notin StillAskingPositions \ {"save_turn"}
          /\ (hist.captured # None /\ hist.last_end = "saved")
                => /\ Len(session.turns) = current_question
                   /\ session.turns[current_question] =
                          [question |-> current_question,
                           response |-> NewResponse(hist.captured),
                           skipped |-> FALSE]

\* "Thanks", classified UNKNOWN, accepted on the second attempt
C18_Witness ==
    /\ ~ enable_confirmation
    /\ pc = "question_done"
    /\ hist.last_end = "saved"
    /\ hist.captured = "Thanks"
    /\ hist.intent = UNKNOWN
    /\ retry_count = 1
    /\ session.turns[Len(session.turns)].response = NewResponse("Thanks")

\* C19: with confirmation enabled, after the confirmation prompt the
\* orchestrator listens exactly once. If that utterance is classified
\* CONFIRM_YES the answer is accepted (the turn is saved next, with the
\* captured text) and retry_count is unchanged. For every other outcome
\* (CONFIRM_NO, QUIT, any other intent, empty or gated-out input) a notice is
\* spoken, retry_count goes up by exactly one and no turn is appended by the
\* confirmation.
C19_ConfirmationOutcome ==
    /\ [](pc = "confirm_no" => hist.confirm_intent = CONFIRM_NO)
    /\ [](pc = "confirm_unclear"
             => hist.confirm_intent \notin {None, CONFIRM_YES, CONFIRM_NO})
    /\ []((hist.confirm_intent = CONFIRM_YES /\ outcome = "running")
             => pc = "save_turn")
    /\ [][(pc = "confirm_speak" /\ outcome' = "running")
          => pc' = "confirm_listen"]_vars
    /\ [][(pc = "confirm_listen" /\ outcome' = "running")
          => /\ pc' \in {"save_turn", "confirm_no", "confirm_unclear"}
             /\ retry_count' = retry_count
             /\ session' = session
             /\ current_response_text' = current_response_text]_vars
    /\ [][(pc = "save_turn" /\ hist.confirm_intent = CONFIRM_YES
                            /\ outcome' = "running")
          => /\ retry_count' = retry_count
             /\ session'.turns =
                    Append(session.turns,
                           [question |-> current_question,
                            response |-> NewResponse(current_response_text),
                            skipped |-> FALSE])]_vars
    /\ [][(pc \in {"confirm_no", "confirm_unclear"} /\ outcome' = "running")
          => /\ retry_count' = retry_count + 1
             /\ session' = session
             /\ pc' \in {"retry_check", "save_turn"}]_vars

\* "quit" said in answer to the confirmation prompt, after one failed attempt
C19_Witness ==
    /\ enable_confirmation
    /\ pc = "confirm_unclear"
    /\ hist.confirm_intent = QUIT
    /\ retry_count = 1
    /\ state_machine.current_state = QUESTIONING
    /\ state_machine.previous_state = CONFIRMING

\* the positions of _handle_greeting
GreetingPositions == {"greeting_speak", "greeting_listen", "greeting_reprompt"}

\* C20: the greeting loop is left only after an utterance classified START or
\* QUIT; any other classification (empty text included) leads to the spoken
\* re-prompt and another listen, with nothing counting the iterations; while
\* the loop runs the state machine stays in GREETING and the session gets no
\* turn.
C20_GreetingLoop ==
    /\ [](pc \in GreetingPositions
             => /\ state_machine.current_state = GREETING
                /\ session = NewSession)
    /\ [](pc = "greeting_reprompt"
             => hist.greeting_intent \notin {None, START, QUIT})
    /\ []((outcome = "running" /\ pc \notin GreetingPositions \cup {"run"})
             => hist.greeting_intent \in {START, QUIT})
    /\ [][(pc = "greeting_listen" /\ outcome' = "running"
                                  /\ hist'.greeting_intent \notin {START, QUIT})
          => pc' = "greeting_reprompt"]_vars
    /\ [][(pc = "greeting_reprompt" /\ outcome' = "running")
          => pc' = "greeting_listen"]_vars
    /\ [][(pc \in GreetingPositions /\ pc' \in GreetingPositions)
          => UNCHANGED <<sm_vars, cfg_vars, session, current_question_index,
                         current_question, current_response_text, retry_count,
                         audio_vars, outcome, run_error>>]_vars

C20_Witness ==
    /\ pc = "greeting_reprompt"
    /\ hist.greeting_intent = SKIP
    /\ state_machine.current_state = GREETING
    /\ session.turns = <<>>

\* C21: every transition_to call that does not raise, transition_to(ERROR)
\* included, leaves the machine with current_state the target,
\* previous_state the state held just before the call, and no error message.
C21_TransitionToEffect ==
    [][(sm_call'.op = "transition_to" /\ ~ sm_call'.raised)
       => state_machine' =
             [current_state |-> sm_call'.target,
              previous_state |-> state_machine.current_state,
              error_message |-> None]]_vars

\* transition_to(ERROR) made while already in ERROR: previous_state is ERROR
\* and whatever message was there is gone
C21_Witness ==
    /\ sm_call.op = "transition_to"
    /\ ~ sm_call.raised
    /\ sm_call.from = ERROR
    /\ sm_call.target = ERROR
    /\ state_machine =
          [current_state |-> ERROR, previous_state |-> ERROR, error_message |-> None]

\* C22: set_error(message) never raises, whatever the state: afterwards
\* current_state is ERROR, previous_state is the state held just before the
\* call, and error_message is the message given.
C22_SetErrorEffect ==
    [][sm_call'.op = "set_error"
       => /\ ~ sm_call'.raised
          /\ state_machine' =
                [current_state |-> ERROR,
                 previous_state |-> state_machine.current_state,
                 error_message |-> sm_call'.message]]_vars

\* set_error called on a machine that had finished
C22_Witness ==
    /\ sm_call.op = "set_error"
    /\ sm_call.from = COMPLETE
    /\ sm_call.message = "boom"
    /\ state_machine =
          [current_state |-> ERROR, previous_state |-> COMPLETE,
           error_message |-> "boom"]

\* C23: recover_from_error raises and changes nothing when the machine is
\* not in ERROR or has no previous_state; otherwise it puts current_state
\* back to previous_state and clears error_message.
C23_RecoverFromError ==
    [][sm_call'.op = "recover_from_error"
       => IF state_machine.current_state # ERROR
             \/ state_machine.previous_state = None
          THEN /\ sm_call'.raised
               /\ state_machine' = state_machine
          ELSE /\ ~ sm_call'.raised
               /\ state_machine'.current_state = state_machine.previous_state
               /\ state_machine'.error_message = None]_vars

\* a recovery back into CONFIRMING
C23_Witness ==
    /\ sm_call.op = "recover_from_error"
    /\ ~ sm_call.raised
    /\ sm_call.from = ERROR
    /\ state_machine.current_state = CONFIRMING
    /\ state_machine.error_message = None

\* C24: InterviewOrchestrator(...) raises, and yields no orchestrator and no
\* session, exactly when max_retries < 1 or the question source is empty;
\* otherwise the orchestrator holds the values given and a fresh session.
\* IntentRecognizer(confidence_threshold) raises exactly when the threshold is
\* outside [0.0, 1.0]; 0.0 and 1.0 are accepted.
C24_ConstructionErrorsAreFatal ==
    /\ api_call.op = "InterviewOrchestrator"
          => /\ api_call.result.raised
                   <=> (api_call.max_retries < 1 \/ api_call.questions = 0)
             /\ api_call.result.raised
                   => DOMAIN api_call.result = {"raised"}
             /\ ~ api_call.result.raised
                   => /\ api_call.result.max_retries = api_call.max_retries
                      /\ api_call.result.max_retries >= 1
                      /\ api_call.result.num_questions = api_call.questions
                      /\ api_call.result.session = [turns |-> <<>>, completed |-> FALSE]
    /\ api_call.op = "IntentRecognizer"
          => /\ api_call.result.raised
                   <=> (api_call.confidence_threshold < 0
                        \/ api_call.confidence_threshold > 100)
             /\ api_call.confidence_threshold \in {0, 100}
                   => /\ ~ api_call.result.raised
                      /\ api_call.result.confidence_threshold
                            = api_call.confidence_threshold

\* max_retries = 0 with a non-empty questionnaire is refused
C24_Witness ==
    /\ api_call.op = "InterviewOrchestrator"
    /\ api_call.max_retries = 0
    /\ api_call.questions = 2
    /\ api_call.result.raised

\* the duration of a capture in milliseconds
DurationMs(c) == (c.size * 1000) \div (SampleRate * Channels * BytesPerSample)

\* C25: a capture shorter than 0.5 s comes back as the empty string whatever
\* its content, and so does a capture of at least 0.5 s whose mean amplitude
\* is below 100; in both cases the speech-to-text collaborator is not called.
\* A capture that passes both checks is transcribed.
C25_ShortOrQuietIsSilence ==
    api_call.op = "_listen_for_response"
       => /\ DurationMs(api_call.capture) < 500
                => api_call.text = "" /\ ~ api_call.transcribed
          /\ (DurationMs(api_call.capture) >= 500 /\ api_call.capture.amplitude < 100)
                => api_call.text = "" /\ ~ api_call.transcribed
          /\ (DurationMs(api_call.capture) >= 500 /\ api_call.capture.amplitude >= 100)
                => api_call.transcribed

\* a loud 0.3 s capture that would have been transcribed as "yes"
C25_Witness ==
    /\ api_call.op = "_listen_for_response"
    /\ api_call.capture = [size |-> 9600, amplitude |-> 500, text |-> "yes"]
    /\ api_call.text = ""
    /\ ~ api_call.transcribed

\* the nine transcripts the filter knows as artifacts
NineListedStrings ==
    {"you", "thank you", "thanks", ".", "...", "bye", "goodbye", "music", "subscribe"}

\* C26: a capture that passed the duration and amplitude checks comes back
\* empty exactly when its transcript, trimmed and case-folded, is one of the
\* nine listed strings and the capture lasted less than 2.0 s; in every other
\* case (a transcript that only contains a listed string, or a listed string
\* heard over 2.0 s or more) the trimmed transcript is returned as it is.
C26_HallucinationFilter ==
    (api_call.op = "_listen_for_response" /\ api_call.transcribed)
       => LET trimmed == str_strip(api_call.capture.text)
              filtered == /\ str_lower(trimmed) \in NineListedStrings
                          /\ DurationMs(api_call.capture) < 2000
          IN  /\ Cardinality(NineListedStrings) = 9
              /\ filtered => api_call.text = ""
              /\ ~ filtered => api_call.text = trimmed
              /\ (api_call.text = "" /\ trimmed # "") => filtered

\* "Thanks" heard over exactly 2.0 s is kept
C26_Witness ==
    /\ api_call.op = "_listen_for_response"
    /\ api_call.capture = [size |-> 64000, amplitude |-> 500, text |-> "Thanks"]
    /\ api_call.text = "Thanks"

\* the number of captures at the end of the series, the last one included,
\* whose byte length equals that of the capture before it and is not zero
RECURSIVE TrailingDuplicates(_)
TrailingDuplicates(sizes) ==
    IF Len(sizes) < 2 THEN 0
    ELSE IF sizes[Len(sizes)] = sizes[Len(sizes) - 1] /\ sizes[Len(sizes)] # 0
         THEN 1 + TrailingDuplicates(SubSeq(sizes, 1, Len(sizes) - 1))
         ELSE 0

\* what the audio checks and the filter alone make of a capture
GateVerdict(c) ==
    IF DurationMs(c) < 500 \/ c.amplitude < 100 THEN ""
    ELSE IF str_lower(str_strip(c.text)) \in NineListedStrings /\ DurationMs(c) < 2000
         THEN ""
         ELSE str_strip(c.text)

C28_OnlyGatedTextRecognized ==
    (api_call.op \in {"_handle_greeting", "_listen_for_response"}
     /\ api_call.text # "")
       => GateVerdict(api_call.capture) # ""

\* C29: whatever the text, the threshold and the context, recognize with a
\* context_intent returns a confidence at least as high as recognize without
\* one, and both confidences lie in [0.0, 1.0]: the 1.2 boost is capped.
C29_ContextNeverLowersConfidence ==
    api_call.op = "recognize"
       => LET without_context ==
                  recognize_with(api_call.text, None, api_call.confidence_threshold)
          IN  /\ api_call.result.confidence >= without_context.confidence
              /\ api_call.result.confidence \in 0..100
              /\ without_context.confidence \in 0..100

\* "yes" under threshold 1.0: UNKNOWN at 0.9 without context, CONFIRM_YES at
\* the capped 1.0 with it
C29_Witness ==
    /\ api_call.op = "recognize"
    /\ api_call.text = "yes"
    /\ api_call.context_intent = CONFIRM_YES
    /\ api_call.confidence_threshold = 100
    /\ api_call.result = [intent |-> CONFIRM_YES, confidence |-> 100]
    /\ recognize_with("yes", None, 100) = [intent |-> UNKNOWN, confidence |-> 90]

\* C30: recognize gives (UNKNOWN, 0.0) for empty or whitespace-only text;
\* otherwise, with best the best-scoring pattern pair of the lower-cased,
\* trimmed text: (ANSWER, 0.8) if best is below the threshold and the text
\* has more than two words and does not start with a question word;
\* (UNKNOWN, best score) if best is below the threshold otherwise; and best
\* itself if it reaches the threshold.
C30_RecognizeDecision ==
    api_call.op = "recognize"
       => LET normalized == str_strip(str_lower(api_call.text))
              best == best_match(normalized, api_call.context_intent,
                                 Len(PatternIntents))
              below == best.confidence < api_call.confidence_threshold
          IN  api_call.result =
                 IF str_strip(api_call.text) = ""
                 THEN [intent |-> UNKNOWN, confidence |-> 0]
                 ELSE IF below /\ word_count(normalized) > 2
                               /\ ~ starts_with_question_word(normalized)
                 THEN [intent |-> ANSWER, confidence |-> 80]
                 ELSE IF below
                 THEN [intent |-> UNKNOWN, confidence |-> best.confidence]
                 ELSE best

\* four words, no pattern, but a question: not taken for an answer
C30_Witness ==
    /\ api_call.op = "recognize"
    /\ api_call.text = "what should i say"
    /\ api_call.context_intent = None
    /\ api_call.confidence_threshold = 70
    /\ api_call.result = [intent |-> UNKNOWN, confidence |-> 0]

\* the confidence of every pattern-bearing intent, in iteration order, for a
\* recognize call
Scores(text, context_intent) ==
    [k \in 1..Len(PatternIntents) |->
        boosted_confidence(str_strip(str_lower(text)), PatternIntents[k],
                           context_intent)]

\* the first position in iteration order that holds the highest confidence
FirstLeader(scores) ==
    CHOOSE k \in DOMAIN scores :
        /\ \A j \in DOMAIN scores : scores[k] >= scores[j]
        /\ \A j \in DOMAIN scores : scores[j] = scores[k] => k <= j

\* C31: when several pattern-bearing intents reach the same highest boosted
\* confidence, recognize keeps the one that comes first in the order REPEAT,
\* CLARIFY, SKIP, CONFIRM_YES, CONFIRM_NO, START, QUIT: a pattern-bearing
\* intent that is returned is the first of the leaders and carries their
\* confidence, and the first leader is returned whenever it reaches the
\* threshold.
C31_TiesKeepFirst ==
    (api_call.op = "recognize" /\ str_strip(api_call.text) # "")
       => LET scores == Scores(api_call.text, api_call.context_intent)
              first == FirstLeader(scores)
              returned == api_call.result
          IN  /\ PatternIntents =
                    <<REPEAT, CLARIFY, SKIP, CONFIRM_YES, CONFIRM_NO, START, QUIT>>
              /\ (\E k \in DOMAIN scores : returned.intent = PatternIntents[k])
                    => returned = [intent |-> PatternIntents[first],
                                   confidence |-> scores[first]]
              /\ (scores[first] > 0 /\ scores[first] >= api_call.confidence_threshold)
                    => returned.intent = PatternIntents[first]

\* "no yes": CONFIRM_YES and CONFIRM_NO both at 0.8, the earlier one is kept
\* although "no" is heard first
C31_Witness ==
    /\ api_call.op = "recognize"
    /\ api_call.text = "no yes"
    /\ api_call.context_intent = None
    /\ api_call.confidence_threshold = 70
    /\ Scores("no yes", None)[4] = 80
    /\ Scores("no yes", None)[5] = 80
    /\ api_call.result = [intent |-> CONFIRM_YES, confidence |-> 80]

\* the confidence for a match of match_length characters in a text of
\* text_length characters, as the percentages of the documentation give it
CoverageBand(match_length, text_length) ==
    IF 100 * match_length > 50 * text_length THEN 90
    ELSE IF 100 * match_length > 30 * text_length THEN 80
    ELSE 70

\* C32: the raw confidence of an intent comes from the first of its three
\* alternatives that matches, not from the one that covers most: 0.9 if the
\* match is strictly more than half of the normalized text, 0.8 if strictly
\* more than 30% of it, 0.7 otherwise; 0.0 when no alternative matches.
C32_FirstAlternativeDecides ==
    api_call.op = "_match_patterns"
       => LET lens == re_search_len(api_call.intent, api_call.text)
              text_length == str_len(api_call.text)
          IN  api_call.result =
                 IF lens[1] > 0 THEN CoverageBand(lens[1], text_length)
                 ELSE IF lens[2] > 0 THEN CoverageBand(lens[2], text_length)
                 ELSE IF lens[3] > 0 THEN CoverageBand(lens[3], text_length)
                 ELSE 0

\* "skip this one": the first SKIP alternative matches 4 of 13 characters
\* (0.8) although the third one matches 9 of them
C32_Witness ==
    /\ api_call.op = "_match_patterns"
    /\ api_call.text = "skip this one"
    /\ api_call.intent = SKIP
    /\ re_search_len(SKIP, "skip this one") = <<4, 0, 9>>
    /\ api_call.result = 80

\* C40 as stated: whatever recognize returns other than UNKNOWN carries a
\* confidence of at least the threshold.
C40_ReturnedConfidenceMeetsThreshold ==
    (api_call.op = "recognize" /\ api_call.result.intent # UNKNOWN)
       => api_call.result.confidence >= api_call.confidence_threshold

\* C40: a pattern-bearing intent is returned only with a confidence of at
\* least the threshold; ANSWER is returned with the fixed confidence 0.8,
\* whatever the threshold, and only when the best pattern score is below the
\* threshold.
C40_PatternIntentMeetsThreshold ==
    api_call.op = "recognize"
       => LET returned == api_call.result
              scores == Scores(api_call.text, api_call.context_intent)
          IN  /\ returned.intent \notin {UNKNOWN, ANSWER}
                    => returned.confidence >= api_call.confidence_threshold
              /\ returned.intent = ANSWER
                    => /\ returned.confidence = 80
                       /\ \A k \in DOMAIN scores :
                              scores[k] < api_call.confidence_threshold
              /\ returned.intent = UNKNOWN
                    => (returned.confidence < api_call.confidence_threshold
                        \/ returned.confidence = 0)

\* an answer returned at 0.8 by a recognizer whose threshold is 0.85
C40_Witness ==
    /\ api_call.op = "recognize"
    /\ api_call.text = "i am an engineer"
    /\ api_call.confidence_threshold = 85
    /\ api_call.result = [intent |-> ANSWER, confidence |-> 80]

\* C36: a transition_to call that raises because the target cannot be
\* reached leaves current_state, previous_state and error_message as they
\* were before the call.
C36_FailedTransitionChangesNothing ==
    [][(sm_call'.op = "transition_to" /\ sm_call'.raised)
       => /\ sm_call'.target \notin valid_transitions[state_machine.current_state]
          /\ state_machine'.current_state = state_machine.current_state
          /\ state_machine'.previous_state = state_machine.previous_state
          /\ state_machine'.error_message = state_machine.error_message]_vars

\* a refused transition_to(GREETING) on a finished machine that had come to
\* COMPLETE from CLOSING
C36_Witness ==
    /\ sm_call.op = "transition_to"
    /\ sm_call.raised
    /\ sm_call.from = COMPLETE
    /\ sm_call.target = GREETING
    /\ state_machine =
          [current_state |-> COMPLETE, previous_state |-> CLOSING,
           error_message |-> None]

\* C37: whatever calls of transition_to, set_error and recover_from_error
\* are made, error_message is set only while current_state is ERROR.
C37_MessageOnlyInError ==
    state_machine.error_message # None => state_machine.current_state = ERROR

\* the (empty) message of a second set_error in a row is held in ERROR
C37_Witness ==
    /\ sm_call.op = "set_error"
    /\ sm_call.from = ERROR
    /\ sm_call.message = ""
    /\ state_machine =
          [current_state |-> ERROR, previous_state |-> ERROR, error_message |-> ""]

\* C38: on a machine built in INIT, a recover_from_error call that does not
\* raise leaves the machine in one of the targets listed for ERROR (INIT,
\* GREETING, QUESTIONING, CONFIRMING, CLOSING), so not in ERROR.
C38_RecoveryLeavesError ==
    (sm_call.op = "recover_from_error" /\ ~ sm_call.raised)
       => /\ state_machine.current_state # ERROR
          /\ state_machine.current_state \in valid_transitions[ERROR]

\* the positions of _confirm_answer between its two transitions
ConfirmingPositions == {"confirm_speak", "confirm_listen"}

\* the positions of _confirm_answer and its caller after the reply was
\* classified
AfterConfirmationPositions == {"save_turn", "confirm_no", "confirm_unclear"}

\* the positions of the questioning loop outside _confirm_answer
QuestioningLoopPositions ==
    {"ask_question", "retry_check", "listen", "reprompt", "clarify",
     "confirm_answer", "confirm_no", "confirm_unclear", "save_turn"}

\* C33: as long as run() is not ended by an interruption or a collaborator
\* failure, the state machine is in CONFIRMING exactly while the orchestrator
\* speaks the confirmation prompt and listens for the reply; CONFIRMING is
\* entered from QUESTIONING only; the single confirmation listen is followed
\* in the same step by the transition back to QUESTIONING whatever the reply
\* was classified as; and every listen for an answer is made in QUESTIONING.
C33_ConfirmingReturnsToQuestioning ==
    /\ [](outcome = "running"
             => (state_machine.current_state = CONFIRMING
                    <=> pc \in ConfirmingPositions))
    /\ []((outcome = "running" /\ pc \in QuestioningLoopPositions)
             => state_machine.current_state = QUESTIONING)
    /\ [][(pc = "confirm_answer" /\ outcome' = "running")
          => /\ pc' = "confirm_speak"
             /\ sm_call' = [op |-> "transition_to", from |-> QUESTIONING,
                            target |-> CONFIRMING, message |-> None,
                            raised |-> FALSE]]_vars
    /\ [][(pc = "confirm_speak" /\ outcome' = "running")
          => pc' = "confirm_listen" /\ audio_vars' = audio_vars]_vars
    /\ [][(pc = "confirm_listen" /\ outcome' = "running")
          => /\ pc' \in AfterConfirmationPositions
             /\ hist'.confirm_intent \in UserIntent
             /\ sm_call' = [op |-> "transition_to", from |-> CONFIRMING,
                            target |-> QUESTIONING, message |-> None,
                            raised |-> FALSE]
             /\ state_machine'.current_state = QUESTIONING
             /\ state_machine'.previous_state = CONFIRMING]_vars

\* back in QUESTIONING after a reply that was neither yes nor no, the last
\* retry not yet counted
C33_Witness ==
    /\ outcome = "running"
    /\ pc = "confirm_unclear"
    /\ hist.confirm_intent = UNKNOWN
    /\ max_retries = 2
    /\ retry_count = 1
    /\ state_machine.current_state = QUESTIONING
    /\ state_machine.previous_state = CONFIRMING

\* the positions of one pass of the questioning loop after its listen
InConfirmationPositions ==
    {"confirm_answer", "confirm_speak", "confirm_listen", "confirm_no",
     "confirm_unclear"}

\* C34: retry_count stays within 0..max_retries throughout every run; it is
\* put back to 0 when processing of a question starts and changes nowhere
\* else except by +1; the +1 is made once per pass of the questioning loop at
\* most: by the empty listen, which ends the pass, or by the failed
\* confirmation, which ends the pass and which is only reached while no retry
\* was counted in that pass.
C34_RetryCountBounded ==
    /\ [](0 <= retry_count /\ retry_count <= max_retries)
    /\ []((outcome = "running" /\ pc \in InConfirmationPositions \cup {"listen"})
             => retry_count < max_retries)
    /\ [][(pc = "process_question" /\ outcome' = "running")
          => retry_count' = 0]_vars
    /\ [][pc # "process_question"
          => retry_count' \in {retry_count, retry_count + 1}]_vars
    /\ [][retry_count' = retry_count + 1
          => \/ pc = "listen" /\ pc' \in {"reprompt", "retry_check"}
             \/ /\ pc \in {"confirm_no", "confirm_unclear"}
                /\ pc' \in {"retry_check", "save_turn"}]_vars

\* the second question starts from 0 after the first one used up both retries
C34_Witness ==
    /\ outcome = "running"
    /\ pc = "listen"
    /\ max_retries = 2
    /\ current_question = 2
    /\ retry_count = 0
    /\ Len(session.turns) = 1
    /\ session.turns[1].response = NoResponse
    /\ ~ session.turns[1].skipped

\* how far a position is from the end of its stage
PositionRank ==
    CASE pc = "clarify" -> 12
      [] pc = "ask_question" -> 11
      [] pc = "reprompt" -> 10
      [] pc = "retry_check" -> 9
      [] pc = "listen" -> 8
      [] pc = "confirm_answer" -> 7
      [] pc = "confirm_speak" -> 6
      [] pc = "confirm_listen" -> 5
      [] pc \in {"confirm_no", "confirm_unclear"} -> 4
      [] pc \in {"save_turn", "exit_speak"} -> 3
      [] pc = "skip_speak" -> 6
      [] pc = "question_done" -> 5
      [] pc = "loop_check" -> 4
      [] pc \in {"process_question", "closing"} -> 3
      [] pc = "closing_speak" -> 2
      [] pc = "complete" -> 1
      [] pc = "run" -> 5
      [] pc = "greeting_speak" -> 4
      [] pc = "greeting_reprompt" -> 3
      [] pc = "greeting_listen" -> 2
      [] pc = "questioning" -> 1
      [] OTHER -> 0

\* the positions inside the processing of one question, up to the point
\* where it is given up, saved or skipped
InQuestionPositions ==
    QuestioningLoopPositions \cup ConfirmingPositions \cup {"exit_speak"}

\* a measure of what run() may still have to do: the stage (greeting, then
\* for each question the gap before it and the question itself), then the
\* retries left, then the position; 0 once run() has ended
WorkLeft ==
    IF pc = "done" THEN 0
    ELSE IF pc = "question_done" /\ is_terminal(state_machine) THEN 1
    ELSE LET stage == IF pc \in GreetingPositions \cup {"run", "questioning"}
                      THEN 2 * num_questions + 3
                      ELSE IF pc \in InQuestionPositions
                      THEN 2 * (num_questions - current_question_index) + 1
                      ELSE 2 * (num_questions - current_question_index) + 2
             retries_left == IF pc \in InQuestionPositions
                             THEN max_retries - retry_count ELSE 0
         IN  1 + (stage * (max_retries + 1) + retries_left) * 16 + PositionRank

\* C35: run() cannot go on for ever unless the user keeps asking for the
\* question again or keeps saying something other than START or QUIT to the
\* greeting: every step of run() brings it closer to its end, except the
\* listen that hears REPEAT or CLARIFY and the greeting listen that hears
\* neither START nor QUIT. In particular a listen of the questioning loop
\* that hears anything else ends the question or leads to a counted retry, of
\* which a question has max_retries at most.
C35_RunTerminates ==
    /\ [](WorkLeft >= 0 /\ (WorkLeft = 0 <=> pc = "done"))
    /\ [](pc = "done" <=> outcome # "running")
    /\ [][\/ WorkLeft' < WorkLeft
          \/ pc = "listen" /\ hist'.intent \in {REPEAT, CLARIFY}
          \/ pc = "greeting_listen" /\ hist'.greeting_intent \notin {START, QUIT}]_vars
    /\ [][(pc = "listen" /\ outcome' = "running"
                         /\ hist'.intent \notin {REPEAT, CLARIFY})
          => \/ retry_count' = retry_count + 1
             \/ pc' \in {"skip_speak", "exit_speak", "save_turn", "confirm_answer"}]_vars

\* run() has returned after two questions, the second of them asked again
\* on request and then given up with both retries spent
C35_Witness ==
    /\ outcome = "returned"
    /\ pc = "done"
    /\ WorkLeft = 0
    /\ num_questions = 2
    /\ max_retries = 2
    /\ retry_count = 2
    /\ hist.nonempty
    /\ Len(session.turns) = 2
    /\ session.turns[2].response = NoResponse

\* C39: in the session of every run, at every moment, no turn is both
\* flagged as skipped and holding a response: a turn with a response was
\* saved with skipped false, and a skipped turn has none.
C39_SkippedTurnHasNoResponse ==
    \A i \in 1..Len(session.turns) :
        LET turn == session.turns[i]
        IN  /\ ~ (turn.skipped /\ turn.response # NoResponse)
            /\ turn.response # NoResponse => ~ turn.skipped
            /\ turn.skipped => turn.response = NoResponse

\* a skipped question after an answered one, the answer still held by the
\* orchestrator when the skip is recorded
C39_Witness ==
    /\ Len(session.turns) = 2
    /\ session.turns[1] = [question |-> 1, response |-> NewResponse("i am an engineer"),
                           skipped |-> FALSE]
    /\ session.turns[2] = [question |-> 2, response |-> NoResponse, skipped |-> TRUE]
    /\ current_response_text = "i am an engineer"

====
